---- MODULE Spec2Model ----
(***************************************************************************)
(* Model of the app-error package: the CustomErr template, the AppError    *)
(* composite with its fluent mutators, and the context-carried TraceMeta   *)
(* with its lookup/append protocol (AddTraceLog).                          *)
(*                                                                         *)
(* Pointers are modelled as indices into heaps (sequences); 0 is nil.      *)
(* An error value is a sequence: <<>> is the nil error, <<m>> an error     *)
(* whose Error() method returns m.                                         *)
(***************************************************************************)
EXTENDS Integers, Sequences, FiniteSets, TLC

\* ------------------------------------------------------------------ bounds
MaxErrs == 1      \* AppErrors constructed in one run of Spec
MaxCopies == 2    \* AppErrors constructed in one run of SpecCopy
MaxCalls == 3     \* mutator calls (and caller writes to a template) in one run
MaxTrace == 3     \* trace appends requested in one run
NumWorkers == 3   \* concurrent callers sharing one carrier

\* ------------------------------------------------------------ input domains
Nil == 0
NilErr == <<>>
NilData == "nil"
Codes == {"", "c1", "c2"}
Msgs == {"m1", "m2"}
Errs == {NilErr} \cup {<<m>> : m \in Msgs}
Metas == {<<>>, <<"d1", "d2">>}
Workers == 1..NumWorkers

\* A carrier (context.Context) is described by whether the interface itself is
\* nil and by the value stored under the trace key: its dynamic type ("none"
\* when nothing is stored) and, for a *TraceMeta, the pointer.
NilCtx == [isNil |-> TRUE, type |-> "none", ptr |-> Nil]
EmptyCtx == [isNil |-> FALSE, type |-> "none", ptr |-> Nil]
WrongShapeCtx == [isNil |-> FALSE, type |-> "TraceMeta", ptr |-> Nil]
NilMetaCtx == [isNil |-> FALSE, type |-> "*TraceMeta", ptr |-> Nil]
MetaCtx(p) == [isNil |-> FALSE, type |-> "*TraceMeta", ptr |-> p]
Carriers == {NilCtx, EmptyCtx, WrongShapeCtx, NilMetaCtx, MetaCtx(1), MetaCtx(2)}
HoldsTraceMeta(ctx) == ~ctx.isNil /\ ctx.type = "*TraceMeta" /\ ctx.ptr # Nil

\* The error logs of the two TraceMeta objects the application installed
\* before the first call: TraceMeta 1 starts empty, TraceMeta 2 does not.
L0 == << <<>>, <<"m0">> >>

VARIABLES
    customErrs,   \* heap of CustomErr cells: customErrs[p] = [Code, Message, Retryable]
    defs,         \* the pointers GetCustomErr returned (the package-level templates)
    appErrs,      \* heap of AppError objects
    traceMetas,   \* heap of TraceMeta objects
    panicked,     \* "none", or the run-time panic that unwound the caller
    calls,        \* number of mutator calls made so far
    built,        \* history: for each AppError, what GetAppErr was given and returned
    codeOps,      \* history: for each AppError, the SetErrCode/AddErrCode calls made on it
    given,        \* history: for each AppError, the last failure and message handed to it
    traceCalls,   \* history: every trace append requested and what it returned
    pc, snap, wcall \* concurrent callers: position, slice read, call in progress

vars == <<customErrs, defs, appErrs, traceMetas, panicked, calls,
          built, codeOps, given, traceCalls, pc, snap, wcall>>

workerVars == <<pc, snap, wcall>>
errVars == <<customErrs, defs, appErrs, calls, built, codeOps, given>>

\* ------------------------------------------------------------- customError.go
\* &CustomErr{Code: code, Message: msg, Retryable: retryable}
NewCustomErr(code, msg, retryable) ==
    [Code |-> code, Message |-> msg, Retryable |-> retryable]

\* GetCustomErr: allocates a new cell and returns the pointer to it
GetCustomErr(cells, code, msg, retryable) ==
    [cells |-> Append(cells, NewCustomErr(code, msg, retryable)),
     ptr |-> Len(cells) + 1]

\* The fields of CustomErr are exported: the holder of a template may assign them.
WriteCustomErr(d, code, msg, retryable) ==
    /\ panicked = "none"
    /\ calls < MaxCalls
    /\ d \in defs
    /\ customErrs' = [customErrs EXCEPT ![d] = NewCustomErr(code, msg, retryable)]
    /\ calls' = calls + 1
    /\ UNCHANGED <<defs, appErrs, traceMetas, panicked, built, codeOps, given,
                   traceCalls, workerVars>>

\* ------------------------------------------------------------------ context.go
\* ctx.Value(c.TraceMetaKey): the interface value stored under the trace key
Value(ctx) == [type |-> ctx.type, ptr |-> ctx.ptr]

\* trace.(*TraceMeta): the comma-ok type assertion
TypeAssert(trace) ==
    IF trace.type = "*TraceMeta"
    THEN [traceMeta |-> trace.ptr, ok |-> TRUE]
    ELSE [traceMeta |-> Nil, ok |-> FALSE]

\* append(traceMeta.Error, errorMsg)
AppendPrepending(slice, errorMsg) == <<errorMsg>> \o slice

AppendError(slice, errorMsg) == Append(slice, errorMsg)

\* The whole of AddTraceLog as one sequential call: the value returned, the
\* TraceMeta heap afterwards, and whether the call panicked (a *TraceMeta that
\* is a nil pointer passes the type assertion and is then dereferenced).
AddTraceLogUncheckedAssert(ctx, errorMsg, tms) ==
    IF ctx.isNil
    THEN [ret |-> Nil, tms |-> tms, panic |-> FALSE]
    ELSE LET a == TypeAssert(Value(ctx))
         IN  IF ~a.ok \/ a.traceMeta = Nil
             THEN [ret |-> Nil, tms |-> tms, panic |-> TRUE]
             ELSE [ret |-> a.traceMeta,
                   tms |-> [tms EXCEPT ![a.traceMeta].Error = AppendError(@, errorMsg)],
                   panic |-> FALSE]

AddTraceLogCall(ctx, errorMsg, tms) ==
    IF ctx.isNil
    THEN [ret |-> Nil, tms |-> tms, panic |-> FALSE]
    ELSE LET a == TypeAssert(Value(ctx))
         IN  IF ~a.ok
             THEN [ret |-> Nil, tms |-> tms, panic |-> FALSE]
             ELSE IF a.traceMeta = Nil
                  THEN [ret |-> Nil, tms |-> tms, panic |-> TRUE]
                  ELSE [ret |-> a.traceMeta,
                        tms |-> [tms EXCEPT ![a.traceMeta].Error = AppendError(@, errorMsg)],
                        panic |-> FALSE]

\* One entry of the history of trace appends: the caller (AddTraceLog called
\* directly, or from GetAppErr), the inputs, the value returned and the error
\* log read through the returned pointer at the moment of the return.
TraceCall(via, ctx, errorMsg, r) ==
    [via |-> via, ctx |-> ctx, msg |-> errorMsg, ret |-> r.ret, panic |-> r.panic,
     log |-> IF r.ret = Nil THEN <<>> ELSE r.tms[r.ret].Error]

AddTraceLog(ctx, errorMsg) ==
    /\ panicked = "none"
    /\ LET r == AddTraceLogCall(ctx, errorMsg, traceMetas)
       IN  /\ traceMetas' = r.tms
           /\ panicked' = IF r.panic THEN "nilTraceMeta" ELSE "none"
           /\ traceCalls' = Append(traceCalls, TraceCall("AddTraceLog", ctx, errorMsg, r))
    /\ UNCHANGED <<errVars, workerVars>>

\* ---------------------------------------------------------------- AppError
\* err.Error() of a non-nil underlying failure
ErrMsg(err) == err[1]

\* func (e *AppError) Error() string
ErrorFallingBackToMsg(a, cells) ==
    IF a.ActualErr = NilErr THEN cells[a.CustomErr].Message ELSE ErrMsg(a.ActualErr)

Error(a, cells) ==
    IF a.ActualErr = NilErr THEN "" ELSE ErrMsg(a.ActualErr)

GetErr(a) == a.ActualErr
GetMsg(a, cells) == cells[a.CustomErr].Message
GetHTTPCode(a) == a.httpCode
GetErrCode(a, cells) == cells[a.CustomErr].Code
GetErrCodes(a) == a.ErrorCodes
GetData(a) == a.data

Live(e) == e \in 1..Len(appErrs)

MayCall == panicked = "none" /\ calls < MaxCalls

SetErr(e, err) ==
    /\ MayCall /\ Live(e)
    /\ appErrs' = [appErrs EXCEPT ![e].ActualErr = err]
    /\ given' = [given EXCEPT ![e].err = err]
    /\ calls' = calls + 1
    /\ UNCHANGED <<customErrs, defs, traceMetas, panicked, built, codeOps,
                   traceCalls, workerVars>>

SetMsgCell(cell, msg) == [cell EXCEPT !.Message = msg]

SetMsg(e, msg) ==
    /\ MayCall /\ Live(e)
    /\ customErrs' = [customErrs EXCEPT ![appErrs[e].CustomErr] = SetMsgCell(@, msg)]
    /\ given' = [given EXCEPT ![e].msg = msg]
    /\ calls' = calls + 1
    /\ UNCHANGED <<defs, appErrs, traceMetas, panicked, built, codeOps,
                   traceCalls, workerVars>>

SetHTTPCode(e, httpCode) ==
    /\ MayCall /\ Live(e)
    /\ appErrs' = [appErrs EXCEPT ![e].httpCode = httpCode]
    /\ calls' = calls + 1
    /\ UNCHANGED <<customErrs, defs, traceMetas, panicked, built, codeOps, given,
                   traceCalls, workerVars>>

SetErrCodeCell(cell, code) == [cell EXCEPT !.Code = code]

\* SetErrCode has no statement that touches e.ErrorCodes
SetErrCodeLogging(codes, code) == Append(codes, code)

SetErrCodeCodes(codes, code) == codes

SetErrCode(e, code) ==
    /\ MayCall /\ Live(e)
    /\ customErrs' = [customErrs EXCEPT ![appErrs[e].CustomErr] = SetErrCodeCell(@, code)]
    /\ appErrs' = [appErrs EXCEPT ![e].ErrorCodes = SetErrCodeCodes(@, code)]
    /\ codeOps' = [codeOps EXCEPT ![e] = Append(@, [op |-> "Set", code |-> code])]
    /\ calls' = calls + 1
    /\ UNCHANGED <<defs, traceMetas, panicked, built, given,
                   traceCalls, workerVars>>

\* AddErrCode, the write to e.CustomErr.Code
AddErrCodeKeepingPrimary(cell, errorCode) == cell

AddErrCodeCell(cell, errorCode) ==
    IF errorCode # "" THEN [cell EXCEPT !.Code = errorCode] ELSE cell

\* AddErrCode, the write to e.ErrorCodes
AddErrCodeLoggingEmpty(codes, errorCode) == Append(codes, errorCode)

AddErrCodeCodes(codes, errorCode) ==
    IF errorCode # "" THEN Append(codes, errorCode) ELSE codes

AddErrCode(e, errorCode) ==
    /\ MayCall /\ Live(e)
    /\ customErrs' = [customErrs EXCEPT
                         ![appErrs[e].CustomErr] = AddErrCodeCell(@, errorCode)]
    /\ appErrs' = [appErrs EXCEPT ![e].ErrorCodes = AddErrCodeCodes(@, errorCode)]
    /\ codeOps' = [codeOps EXCEPT ![e] = Append(@, [op |-> "Add", code |-> errorCode])]
    /\ calls' = calls + 1
    /\ UNCHANGED <<defs, traceMetas, panicked, built, given, traceCalls, workerVars>>

SetData(e, data) ==
    /\ MayCall /\ Live(e)
    /\ appErrs' = [appErrs EXCEPT ![e].data = data]
    /\ calls' = calls + 1
    /\ UNCHANGED <<customErrs, defs, traceMetas, panicked, built, codeOps, given,
                   traceCalls, workerVars>>

\* CustomErr: &CustomErr{} -- the cell the new AppError points at
AliasedDefinition(customErr, fresh) == IF customErr # Nil THEN customErr ELSE fresh

OwnedDefinition(customErr, fresh) == fresh

\* ErrorCodes: []string{} and the append of customErr.Code
InitialCodesAlwaysLogged(customErr, cells) ==
    IF customErr # Nil THEN <<cells[customErr].Code>> ELSE <<"">>

InitialCodes(customErr, cells) ==
    IF customErr # Nil THEN Append(<<>>, cells[customErr].Code) ELSE <<>>

\* The body of GetAppErr after the trace append: the CustomErr heap afterwards
\* and the AppError returned.
NewAppErr(cells, err, customErr, httpCode, meta) ==
    LET fresh == Len(cells) + 1
        alloc == Append(cells, [Code |-> "", Message |-> "", Retryable |-> FALSE])
        p == OwnedDefinition(customErr, fresh)
        a == [ActualErr |-> err,
              CustomErr |-> p,
              httpCode |-> httpCode,
              ErrorCodes |-> InitialCodes(customErr, cells),
              data |-> IF Len(meta) > 0 THEN meta[1] ELSE NilData]
    IN  [cells |-> IF customErr # Nil
                   THEN [alloc EXCEPT ![p].Code = cells[customErr].Code,
                                      ![p].Message = cells[customErr].Message]
                   ELSE alloc,
         appErr |-> a]

\* What the caller handed to GetAppErr as the definition, at the time of the call
DefGiven(customErr, cells) ==
    IF customErr # Nil
    THEN [present |-> TRUE, ptr |-> customErr, Code |-> cells[customErr].Code,
          Message |-> cells[customErr].Message, Retryable |-> cells[customErr].Retryable]
    ELSE [present |-> FALSE, ptr |-> Nil, Code |-> "", Message |-> "", Retryable |-> FALSE]

GetAppErr(ctx, err, customErr, httpCode, meta) ==
    /\ panicked = "none"
    /\ customErr = Nil \/ customErr \in defs
    /\ IF err = NilErr
       THEN \* err.Error() on a nil error interface
            /\ panicked' = "nilErr"
            /\ UNCHANGED <<errVars, traceMetas, traceCalls>>
       ELSE LET r == AddTraceLogCall(ctx, ErrMsg(err), traceMetas)
                n == NewAppErr(customErrs, err, customErr, httpCode, meta)
            IN  /\ traceCalls' = Append(traceCalls,
                                         TraceCall("GetAppErr", ctx, ErrMsg(err), r))
                /\ traceMetas' = r.tms
                /\ IF r.panic
                   THEN /\ panicked' = "nilTraceMeta"
                        /\ UNCHANGED errVars
                   ELSE /\ panicked' = "none"
                        /\ customErrs' = n.cells
                        /\ appErrs' = Append(appErrs, n.appErr)
                        /\ built' = Append(built,
                               [def |-> DefGiven(customErr, customErrs),
                                code0 |-> GetErrCode(n.appErr, n.cells),
                                msg0 |-> GetMsg(n.appErr, n.cells),
                                codes0 |-> GetErrCodes(n.appErr)])
                        /\ codeOps' = Append(codeOps, <<>>)
                        /\ given' = Append(given,
                               [err |-> err, msg |-> DefGiven(customErr, customErrs).Message])
                        /\ UNCHANGED <<defs, calls>>
    /\ UNCHANGED workerVars

\* ------------------------------------------------------ the sequential program
Init ==
    /\ LET d1 == GetCustomErr(<<>>, "c0", "m0", FALSE)
           d2 == GetCustomErr(d1.cells, "c9", "m9", TRUE)
       IN  /\ customErrs = d2.cells
           /\ defs = {d1.ptr, d2.ptr}
    /\ appErrs = <<>>
    /\ traceMetas = [p \in 1..2 |->
                        [Trace |-> <<>>, Error |-> L0[p], IdentifierMappings |-> <<>>]]
    /\ panicked = "none"
    /\ calls = 0
    /\ built = <<>>
    /\ codeOps = <<>>
    /\ given = <<>>
    /\ traceCalls = <<>>
    /\ pc = [w \in Workers |-> "idle"]
    /\ snap = [w \in Workers |-> <<>>]
    /\ wcall = [w \in Workers |-> [op |-> "none", msg |-> ""]]

\* One sequential caller building an AppError from a template and mutating it.
Next ==
    \/ \E d \in defs, c \in {"c1"}, m \in {"m1"}, r \in {TRUE} : WriteCustomErr(d, c, m, r)
    \/ /\ Len(appErrs) < MaxErrs
       /\ \E ctx \in {NilCtx, MetaCtx(1)}, err \in {NilErr, <<"m1">>},
             d \in defs \cup {Nil}, m \in Metas :
              GetAppErr(ctx, err, d, 400, m)
    \/ \E e \in DOMAIN appErrs, err \in {NilErr, <<"m2">>} : SetErr(e, err)
    \/ \E e \in DOMAIN appErrs, m \in {"m1"} : SetMsg(e, m)
    \/ \E e \in DOMAIN appErrs, h \in {500} : SetHTTPCode(e, h)
    \/ \E e \in DOMAIN appErrs, c \in {"c1", "c2"} : SetErrCode(e, c)
    \/ \E e \in DOMAIN appErrs, c \in Codes : AddErrCode(e, c)
    \/ \E e \in DOMAIN appErrs, d \in {"d1"} : SetData(e, d)

Spec == Init /\ [][Next]_vars

\* One sequential caller building several AppErrors from the same templates,
\* writing to the templates and to the definitions of the AppErrors.
NextCopy ==
    \/ \E d \in defs, c \in {"c1"}, m \in {"m1"}, r \in BOOLEAN : WriteCustomErr(d, c, m, r)
    \/ /\ Len(appErrs) < MaxCopies
       /\ \E d \in defs \cup {Nil} : GetAppErr(NilCtx, <<"m1">>, d, 400, <<>>)
    \/ \E e \in DOMAIN appErrs, m \in {"m2"} : SetMsg(e, m)
    \/ \E e \in DOMAIN appErrs, c \in {"c2"} : SetErrCode(e, c)
    \/ \E e \in DOMAIN appErrs, c \in {"c3"} : AddErrCode(e, c)

SpecCopy == Init /\ [][NextCopy]_vars

\* One sequential caller appending to the trace log, directly and by building
\* AppErrors, over every kind of carrier.
NextTrace ==
    \/ /\ Len(traceCalls) < MaxTrace
       /\ \E ctx \in Carriers, m \in Msgs : AddTraceLog(ctx, m)
    \/ /\ Len(traceCalls) < MaxTrace
       /\ \E ctx \in Carriers, err \in Errs : GetAppErr(ctx, err, Nil, 400, <<>>)

SpecTrace == Init /\ [][NextTrace]_vars

\* ------------------------------------------------------ concurrent callers
\* Several goroutines share one carrier that holds TraceMeta 1.  AddTraceLog
\* takes no lock: the read of traceMeta.Error and the assignment of the
\* appended slice back to it are separate steps that interleave.  (The build
\* may in addition tear the slice header; the lost update below needs no tear.)
SharedCtx == MetaCtx(1)

\* Each caller logs a message of its own.
WorkerMsg(w) == "w" \o ToString(w)

\* The caller enters AddTraceLog, directly or as the first statement of GetAppErr.
Call(w, op) ==
    /\ panicked = "none"
    /\ pc[w] = "idle"
    /\ wcall' = [wcall EXCEPT ![w] = [op |-> op, msg |-> WorkerMsg(w)]]
    /\ pc' = [pc EXCEPT ![w] = "read"]
    /\ UNCHANGED <<errVars, traceMetas, panicked, traceCalls, snap>>

\* The nil check, the lookup, the type assertion and the read of traceMeta.Error.
ReadLog(w) ==
    /\ pc[w] = "read"
    /\ LET a == TypeAssert(Value(SharedCtx))
       IN  IF SharedCtx.isNil \/ ~a.ok
           THEN /\ pc' = [pc EXCEPT ![w] = IF wcall[w].op = "GetAppErr" THEN "build" ELSE "done"]
                /\ UNCHANGED snap
           ELSE /\ snap' = [snap EXCEPT ![w] = traceMetas[a.traceMeta].Error]
                /\ pc' = [pc EXCEPT ![w] = "write"]
    /\ UNCHANGED <<errVars, traceMetas, panicked, traceCalls, wcall>>

\* traceMeta.Error = append(<the slice read>, errorMsg); return traceMeta
WriteLog(w) ==
    /\ pc[w] = "write"
    /\ LET p == TypeAssert(Value(SharedCtx)).traceMeta
           tms == [traceMetas EXCEPT ![p].Error = AppendError(snap[w], wcall[w].msg)]
       IN  /\ traceMetas' = tms
           /\ traceCalls' = Append(traceCalls,
                  TraceCall(wcall[w].op, SharedCtx, wcall[w].msg,
                            [ret |-> p, tms |-> tms, panic |-> FALSE]))
    /\ pc' = [pc EXCEPT ![w] = IF wcall[w].op = "GetAppErr" THEN "build" ELSE "done"]
    /\ UNCHANGED <<errVars, panicked, snap, wcall>>

\* The rest of GetAppErr, on objects no other caller holds yet.
Build(w, customErr) ==
    /\ pc[w] = "build"
    /\ customErr = Nil \/ customErr \in defs
    /\ LET err == <<wcall[w].msg>>
           n == NewAppErr(customErrs, err, customErr, 400, <<>>)
       IN  /\ customErrs' = n.cells
           /\ appErrs' = Append(appErrs, n.appErr)
           /\ built' = Append(built,
                  [def |-> DefGiven(customErr, customErrs),
                   code0 |-> GetErrCode(n.appErr, n.cells),
                   msg0 |-> GetMsg(n.appErr, n.cells),
                   codes0 |-> GetErrCodes(n.appErr)])
           /\ codeOps' = Append(codeOps, <<>>)
           /\ given' = Append(given,
                  [err |-> err, msg |-> DefGiven(customErr, customErrs).Message])
    /\ pc' = [pc EXCEPT ![w] = "done"]
    /\ UNCHANGED <<defs, calls, traceMetas, panicked, traceCalls, snap, wcall>>

NextConc ==
    \/ \E w \in Workers, op \in {"AddTraceLog", "GetAppErr"} : Call(w, op)
    \/ \E w \in Workers : ReadLog(w)
    \/ \E w \in Workers : WriteLog(w)
    \/ \E w \in Workers, d \in defs \cup {Nil} : Build(w, d)

SpecConc == Init /\ [][NextConc]_vars

\* ------------------------------------------------------------- properties
Last(seq) == seq[Len(seq)]
IsAdd(o) == o.op = "Add"
IsNonEmpty(c) == c # ""

\* The arguments of the AddErrCode calls of a call history, in call order
AddArgs(ops) ==
    LET adds == SelectSeq(ops, IsAdd) IN [i \in 1..Len(adds) |-> adds[i].code]

NonEmptyCodes(codes) == SelectSeq(codes, IsNonEmpty)

\* SetErrCode was called after the last call that appended to the code history
SetSinceAppend(ops) ==
    \E i \in DOMAIN ops :
        /\ ops[i].op = "Set"
        /\ \A j \in (i + 1)..Len(ops) : ~(ops[j].op = "Add" /\ ops[j].code # "")

\* C1 (as claimed): in every reachable state, a non-empty code history ends
\* with the current primary code.
C1_LastCodeIsPrimary ==
    \A e \in DOMAIN appErrs :
        GetErrCodes(appErrs[e]) # <<>> =>
            Last(GetErrCodes(appErrs[e])) = GetErrCode(appErrs[e], customErrs)

\* C1 (amended): a non-empty code history ends with the current primary code
\* as long as SetErrCode has not been called since the history's last entry
\* was appended (by GetAppErr or by AddErrCode); SetErr, SetMsg, SetHTTPCode,
\* SetData and AddErrCode("") never break the coupling.
C1_LastCodeIsPrimaryUnlessSet ==
    \A e \in DOMAIN appErrs :
        (GetErrCodes(appErrs[e]) # <<>> /\ ~SetSinceAppend(codeOps[e])) =>
            Last(GetErrCodes(appErrs[e])) = GetErrCode(appErrs[e], customErrs)

\* SetErrCode broke the coupling and a later AddErrCode restored it.
C1_Witness ==
    \E e \in DOMAIN appErrs :
        /\ Len(codeOps[e]) = 2
        /\ codeOps[e][1] = [op |-> "Set", code |-> "c2"]
        /\ codeOps[e][2] = [op |-> "Add", code |-> "c1"]
        /\ GetErrCodes(appErrs[e]) = <<"c0", "c1">>
        /\ appErrs[e].httpCode = 500

\* C2: the code history is the initial history followed by the non-empty
\* AddErrCode arguments in call order (AddErrCode("") adds nothing); and when
\* AddErrCode is the only code operation called, the primary code is the last
\* non-empty argument, or the initial primary code if there was none.
C2_AddErrCodeSequence ==
    \A e \in DOMAIN appErrs :
        LET added == NonEmptyCodes(AddArgs(codeOps[e]))
        IN  /\ GetErrCodes(appErrs[e]) = built[e].codes0 \o added
            /\ (\A i \in DOMAIN codeOps[e] : IsAdd(codeOps[e][i])) =>
                   GetErrCode(appErrs[e], customErrs) =
                       IF added = <<>> THEN built[e].code0 ELSE Last(added)

\* AddErrCode("c1"), AddErrCode(""), AddErrCode("c2") on an AppError built
\* from a template.
C2_Witness ==
    \E e \in DOMAIN appErrs :
        /\ AddArgs(codeOps[e]) = <<"c1", "", "c2">>
        /\ Len(codeOps[e]) = 3
        /\ built[e].codes0 = <<"c0">>
        /\ GetErrCodes(appErrs[e]) = <<"c0", "c1", "c2">>

\* C3 (as claimed): GetAppErr called with a nil underlying failure does not
\* panic, whatever the carrier.
C3_NilFailureConstructs == panicked # "nilErr"

\* A carrier on which AddTraceLog is to degrade: nil, nothing stored under the
\* trace key, or a stored value that is not a *TraceMeta.
Degrades(ctx) == ctx.isNil \/ ctx.type # "*TraceMeta"

\* C4: a trace append on a degrading carrier returns nil, does not panic and
\* changes no TraceMeta (carriers are immutable values).
C4_SilentDegrade ==
    [][(/\ Len(traceCalls') = Len(traceCalls) + 1
        /\ Degrades(Last(traceCalls').ctx))
       => /\ Last(traceCalls').ret = Nil
          /\ ~Last(traceCalls').panic
          /\ panicked' = "none"
          /\ traceMetas' = traceMetas]_vars

\* AddTraceLog was called directly on a nil carrier, on one with nothing
\* stored and on one with a value of the wrong type.
C4_Witness ==
    /\ Len(traceCalls) = 3
    /\ traceCalls[1].ctx = NilCtx /\ traceCalls[1].via = "AddTraceLog"
    /\ traceCalls[2].ctx = EmptyCtx /\ traceCalls[2].via = "AddTraceLog"
    /\ traceCalls[3].ctx = WrongShapeCtx /\ traceCalls[3].via = "AddTraceLog"
    /\ panicked = "none"

\* The messages of the first n trace appends made on carriers holding TraceMeta p
MsgsOn(p, n) ==
    LET on == SelectSeq(SubSeq(traceCalls, 1, n),
                        LAMBDA t : HoldsTraceMeta(t.ctx) /\ t.ctx.ptr = p)
    IN  [i \in 1..Len(on) |-> on[i].msg]

\* C5: the error log of each TraceMeta is its initial log followed by the
\* messages appended through its carriers, one entry per call in call order;
\* and each such call returned that TraceMeta, whose log then ended with the
\* call's own message.
C5_TraceOrder ==
    /\ \A p \in DOMAIN traceMetas :
           traceMetas[p].Error = L0[p] \o MsgsOn(p, Len(traceCalls))
    /\ \A i \in DOMAIN traceCalls :
           HoldsTraceMeta(traceCalls[i].ctx) =>
               /\ traceCalls[i].ret = traceCalls[i].ctx.ptr
               /\ traceCalls[i].log = L0[traceCalls[i].ctx.ptr]
                                        \o MsgsOn(traceCalls[i].ctx.ptr, i)

\* Three appends to a non-empty log, made by AddTraceLog and by GetAppErr.
C5_Witness ==
    /\ traceMetas[2].Error = <<"m0", "m2", "m1", "m2">>
    /\ Len(traceCalls) = 3
    /\ traceCalls[1].via = "AddTraceLog"
    /\ traceCalls[2].via = "GetAppErr"
    /\ traceCalls[3].via = "AddTraceLog"
    /\ Len(appErrs) = 1

\* How many entries of a log equal a message
Count(log, m) == Cardinality({i \in DOMAIN log : log[i] = m})

\* C6 (as claimed): once every concurrent caller has returned, the shared
\* error log holds each caller's message exactly once.
C6_NoLostAppend ==
    (\A w \in Workers : pc[w] = "done") =>
        \A w \in Workers : Count(traceMetas[SharedCtx.ptr].Error, WorkerMsg(w)) = 1

\* C7: a step that changes a template changes no AppError's message, primary
\* code or code history; a step that changes the definition of an AppError
\* changes no template and no other AppError.
C7_DefinitionIsolated ==
    [][/\ (\E d \in defs : customErrs'[d] # customErrs[d]) =>
              \A e \in DOMAIN appErrs :
                  /\ GetMsg(appErrs'[e], customErrs') = GetMsg(appErrs[e], customErrs)
                  /\ GetErrCode(appErrs'[e], customErrs') = GetErrCode(appErrs[e], customErrs)
                  /\ GetErrCodes(appErrs'[e]) = GetErrCodes(appErrs[e])
       /\ \A e \in DOMAIN appErrs :
              customErrs'[appErrs[e].CustomErr] # customErrs[appErrs[e].CustomErr] =>
                  /\ \A d \in defs : customErrs'[d] = customErrs[d]
                  /\ \A f \in DOMAIN appErrs \ {e} :
                         /\ GetMsg(appErrs'[f], customErrs') = GetMsg(appErrs[f], customErrs)
                         /\ GetErrCode(appErrs'[f], customErrs')
                                = GetErrCode(appErrs[f], customErrs)
                         /\ GetErrCodes(appErrs'[f]) = GetErrCodes(appErrs[f])]_vars

\* Two AppErrors built from template 1; afterwards the template was written
\* and the first AppError's message and code were changed, and the second
\* AppError still shows what the template held when it was built.
C7_Witness ==
    /\ Len(appErrs) = 2
    /\ built[1].def.ptr = 1 /\ built[2].def.ptr = 1
    /\ customErrs[1] = NewCustomErr("c1", "m1", TRUE)
    /\ GetMsg(appErrs[1], customErrs) = "m2"
    /\ GetErrCode(appErrs[1], customErrs) = "c3"
    /\ GetMsg(appErrs[2], customErrs) = "m0"
    /\ GetErrCode(appErrs[2], customErrs) = "c0"

\* C8 (as claimed): the Retryable flag read through an AppError is the flag of
\* the definition it was built from.
C8_RetryableCarried ==
    \A e \in DOMAIN appErrs :
        customErrs[appErrs[e].CustomErr].Retryable = built[e].def.Retryable

\* C9: an AppError built without a definition has an allocated definition of
\* its own, and GetAppErr returned it with an empty primary code, an empty
\* message and an empty code history.
C9_AbsentDefinitionDefault ==
    \A e \in DOMAIN appErrs :
        ~built[e].def.present =>
            /\ appErrs[e].CustomErr # Nil
            /\ appErrs[e].CustomErr \in DOMAIN customErrs
            /\ appErrs[e].CustomErr \notin defs
            /\ built[e].code0 = ""
            /\ built[e].msg0 = ""
            /\ built[e].codes0 = <<>>

\* An AppError built without a definition, then given a message and a code.
C9_Witness ==
    \E e \in DOMAIN appErrs :
        /\ ~built[e].def.present
        /\ GetMsg(appErrs[e], customErrs) = "m1"
        /\ GetErrCodes(appErrs[e]) = <<"c2">>
        /\ GetErrCode(appErrs[e], customErrs) = "c2"

\* C10: Error() is the message of the failure last handed to the AppError (by
\* GetAppErr or SetErr), the empty string if that failure was nil; GetMsg() is
\* the message last handed to it (the definition's at construction, or
\* SetMsg's).  Neither depends on the other.
C10_MessageDuality ==
    \A e \in DOMAIN appErrs :
        /\ Error(appErrs[e], customErrs) =
               IF given[e].err = NilErr THEN "" ELSE ErrMsg(given[e].err)
        /\ GetMsg(appErrs[e], customErrs) = given[e].msg

\* After SetErr(nil) and SetMsg("m1"): Error() is empty while GetMsg() is not.
C10_Witness ==
    \E e \in DOMAIN appErrs :
        /\ given[e].err = NilErr
        /\ given[e].msg = "m1"
        /\ built[e].msg0 = "m0"
        /\ Error(appErrs[e], customErrs) = ""
        /\ GetMsg(appErrs[e], customErrs) = "m1"

\* C11: in every step after construction the code history of an AppError
\* changes only when AddErrCode was called on it with a non-empty code, and
\* then by exactly that code appended at the end; SetErrCode, AddErrCode(""),
\* SetErr, SetMsg, SetHTTPCode, SetData and writes to a template leave it as it
\* was.  Hence every earlier history is a prefix of every later one.
C11_HistoryGrowsOnlyByAdd ==
    [][\A e \in DOMAIN appErrs :
           IF /\ codeOps'[e] # codeOps[e]
              /\ Last(codeOps'[e]).op = "Add"
              /\ Last(codeOps'[e]).code # ""
           THEN GetErrCodes(appErrs'[e])
                    = Append(GetErrCodes(appErrs[e]), Last(codeOps'[e]).code)
           ELSE GetErrCodes(appErrs'[e]) = GetErrCodes(appErrs[e])]_vars

\* SetErrCode("c1") replaced the primary code and left the history as built;
\* AddErrCode("c2") then appended to it; SetData was called as well.
C11_Witness ==
    \E e \in DOMAIN appErrs :
        /\ codeOps[e] = <<[op |-> "Set", code |-> "c1"], [op |-> "Add", code |-> "c2"]>>
        /\ built[e].codes0 = <<"c0">>
        /\ GetErrCodes(appErrs[e]) = <<"c0", "c2">>
        /\ GetData(appErrs[e]) = "d1"

====
